---- MODULE Spec2Model ----
(***************************************************************************)
(* The constraint graph engine of todag: class DAG.                        *)
(*                                                                         *)
(* The repository holds two copies of the class:                           *)
(*   src/src/lib/dag.js    - addEdge checks canReach(toId, fromId), a      *)
(*                           search along the stored blocker sets;         *)
(*   src/unnamed/part_000  - addEdge checks for a duplicate and then       *)
(*                           canReachForward(toId, fromId), a search along *)
(*                           the derived dependents.                       *)
(* Both are modelled; the variable impl says which copy the store loaded.  *)
(*                                                                         *)
(* Around the engine: the store's serialization and localStorage state     *)
(* (SpecStorage), a client of canMoveTo (SpecMove), the list view with the *)
(* store's todos (SpecApp), the store's own actions (SpecStore), and the   *)
(* graph view's layer assignment (calculateLayout).                        *)
(*                                                                         *)
(* A JavaScript Set is modelled as a sequence without repetitions, and a   *)
(* Map as a sequence of [key, val] entries with distinct keys: both       *)
(* iterate in insertion order, and the code's results depend on it.        *)
(***************************************************************************)
EXTENDS Integers, Sequences, FiniteSets, TLC

\* Number of distinct item identifiers the clients may use.
NumIds == 3

Ids == 1..NumIds

\* Largest graph the clients build up, counted as nodes plus stored edges.
MaxSize == 5

Impls == {"dag_js", "part_000"}

\* Longest serialized form found in localStorage, counted as entries of its
\* nodes array plus entries of its edges array.
MaxFormLen == 3

VARIABLES impl, nodes, edges, last, stored, todos, nextId, completed

vars == <<impl, nodes, edges, last, stored, todos, nextId, completed>>

----------------------------------------------------------------------------
\* JavaScript Set (insertion ordered)

SetHas(s, x) == \E i \in 1..Len(s) : s[i] = x

SetAdd(s, x) == IF SetHas(s, x) THEN s ELSE Append(s, x)

SetDelete(s, x) == SelectSeq(s, LAMBDA y : y # x)

SetOf(s) == {s[i] : i \in 1..Len(s)}

\* JavaScript Map (insertion ordered) from node id to its Set of blockers

MapHas(m, k) == \E i \in 1..Len(m) : m[i].key = k

MapGet(m, k) == m[CHOOSE i \in 1..Len(m) : m[i].key = k].val

MapSet(m, k, v) ==
    IF MapHas(m, k)
    THEN [i \in 1..Len(m) |-> IF m[i].key = k THEN [key |-> k, val |-> v] ELSE m[i]]
    ELSE Append(m, [key |-> k, val |-> v])

MapDelete(m, k) == SelectSeq(m, LAMBDA e : e.key # k)

MapKeys(m) == [i \in 1..Len(m) |-> m[i].key]

----------------------------------------------------------------------------
\* class DAG; a graph value g is [nodes |-> Set, edges |-> Map]

EmptyDAG == [nodes |-> <<>>, edges |-> <<>>]

\* An addNode that gives the node a fresh blocker set even when it exists.
addNode_reset(g, nodeId) ==
    [nodes |-> SetAdd(g.nodes, nodeId), edges |-> MapSet(g.edges, nodeId, <<>>)]

addNode(g, nodeId) ==
    IF ~SetHas(g.nodes, nodeId)
    THEN [nodes |-> SetAdd(g.nodes, nodeId), edges |-> MapSet(g.edges, nodeId, <<>>)]
    ELSE g

\* A removeNode that forgets to purge the removed id from the other blocker sets.
removeNode_keepRefs(g, nodeId) ==
    IF ~SetHas(g.nodes, nodeId) THEN g
    ELSE [nodes |-> SetDelete(g.nodes, nodeId), edges |-> MapDelete(g.edges, nodeId)]

\* A removeNode that leaves the removed id's entry in the edges map.
removeNode_keepEntry(g, nodeId) ==
    IF ~SetHas(g.nodes, nodeId) THEN g
    ELSE [nodes |-> SetDelete(g.nodes, nodeId),
          edges |-> [i \in 1..Len(g.edges) |->
                       [key |-> g.edges[i].key,
                        val |-> IF g.edges[i].key = nodeId THEN <<>>
                                ELSE SetDelete(g.edges[i].val, nodeId)]]]

\* A removeNode that hands the removed node's blockers on to its dependents.
removeNode_bridge(g, nodeId) ==
    IF ~SetHas(g.nodes, nodeId) THEN g
    ELSE LET deps == IF MapHas(g.edges, nodeId) THEN MapGet(g.edges, nodeId) ELSE <<>>
             m    == MapDelete(g.edges, nodeId)
         IN [nodes |-> SetDelete(g.nodes, nodeId),
             edges |-> [i \in 1..Len(m) |->
                          [key |-> m[i].key,
                           val |-> IF SetHas(m[i].val, nodeId)
                                   THEN SetDelete(m[i].val, nodeId)
                                        \o SelectSeq(deps, LAMBDA d : ~SetHas(m[i].val, d))
                                   ELSE m[i].val]]]

removeNode(g, nodeId) ==
    IF ~SetHas(g.nodes, nodeId) THEN g
    ELSE LET m == MapDelete(g.edges, nodeId)
         IN [nodes |-> SetDelete(g.nodes, nodeId),
             edges |-> [i \in 1..Len(m) |->
                          [key |-> m[i].key, val |-> SetDelete(m[i].val, nodeId)]]]

getDependencies(g, nodeId) ==
    IF MapHas(g.edges, nodeId) THEN MapGet(g.edges, nodeId) ELSE <<>>

\* A getDependents that answers with the node's own blocker set.
getDependents_blockers(g, nodeId) ==
    IF MapHas(g.edges, nodeId) THEN MapGet(g.edges, nodeId) ELSE <<>>

getDependents(g, nodeId) ==
    MapKeys(SelectSeq(g.edges, LAMBDA e : SetHas(e.val, nodeId)))

\* A removeEdge that empties the blocker set of toId instead of deleting fromId.
removeEdge_clear(g, fromId, toId) ==
    IF MapHas(g.edges, toId)
    THEN [g EXCEPT !.edges = MapSet(g.edges, toId, <<>>)]
    ELSE g

removeEdge(g, fromId, toId) ==
    IF MapHas(g.edges, toId)
    THEN [g EXCEPT !.edges = MapSet(g.edges, toId, SetDelete(MapGet(g.edges, toId), fromId))]
    ELSE g

\* for (const x of next) { if (!visited.has(x)) stack.push(x) }
PushUnvisited(stack, next, visited) ==
    stack \o SelectSeq(next, LAMBDA x : x \notin visited)

\* The while loop of canReach: follows the stored blocker sets.
RECURSIVE canReachLoop(_, _, _, _)
canReachLoop(g, stack, visited, targetId) ==
    IF Len(stack) = 0 THEN FALSE
    ELSE LET current == stack[Len(stack)]
             rest    == SubSeq(stack, 1, Len(stack) - 1)
         IN IF current \in visited THEN canReachLoop(g, rest, visited, targetId)
            ELSE LET deps == getDependencies(g, current)
                     seen == visited \cup {current}
                 IN IF SetHas(deps, targetId) THEN TRUE
                    ELSE canReachLoop(g, PushUnvisited(rest, deps, seen), seen, targetId)

canReach(g, startId, targetId) ==
    IF startId = targetId THEN TRUE
    ELSE canReachLoop(g, <<startId>>, {}, targetId)

\* The while loop of canReachForward: follows the derived dependents.
RECURSIVE canReachForwardLoop(_, _, _, _)
canReachForwardLoop(g, stack, visited, targetId) ==
    IF Len(stack) = 0 THEN FALSE
    ELSE LET current == stack[Len(stack)]
             rest    == SubSeq(stack, 1, Len(stack) - 1)
         IN IF current \in visited THEN canReachForwardLoop(g, rest, visited, targetId)
            ELSE LET dependents == getDependents(g, current)
                     seen       == visited \cup {current}
                 IN IF SetHas(dependents, targetId) THEN TRUE
                    ELSE canReachForwardLoop(g, PushUnvisited(rest, dependents, seen),
                                             seen, targetId)

canReachForward(g, startId, targetId) ==
    IF startId = targetId THEN TRUE
    ELSE canReachForwardLoop(g, <<startId>>, {}, targetId)

\* Most iterations of a search loop that are followed before giving up.
StepLimit == MaxSize * MaxSize

\* The number of iterations of the while loop of canReach (forward = FALSE) or
\* canReachForward (forward = TRUE) until it returns, counted up to StepLimit;
\* checkVisited = FALSE leaves out the visited set.
RECURSIVE searchSteps(_, _, _, _, _, _, _)
searchSteps(g, forward, checkVisited, stack, visited, targetId, n) ==
    IF Len(stack) = 0 \/ n >= StepLimit THEN n
    ELSE LET current == stack[Len(stack)]
             rest    == SubSeq(stack, 1, Len(stack) - 1)
         IN IF checkVisited /\ current \in visited
            THEN searchSteps(g, forward, checkVisited, rest, visited, targetId, n + 1)
            ELSE LET next == IF forward THEN getDependents(g, current)
                                        ELSE getDependencies(g, current)
                     seen == IF checkVisited THEN visited \cup {current} ELSE {}
                 IN IF SetHas(next, targetId) THEN n + 1
                    ELSE searchSteps(g, forward, checkVisited,
                                     PushUnvisited(rest, next, seen), seen, targetId, n + 1)

canReachSteps_noVisited(g, startId, targetId) ==
    IF startId = targetId THEN 0
    ELSE searchSteps(g, FALSE, FALSE, <<startId>>, {}, targetId, 0)

canReachSteps(g, startId, targetId) ==
    IF startId = targetId THEN 0
    ELSE searchSteps(g, FALSE, TRUE, <<startId>>, {}, targetId, 0)

canReachForwardSteps(g, startId, targetId) ==
    IF startId = targetId THEN 0
    ELSE searchSteps(g, TRUE, TRUE, <<startId>>, {}, targetId, 0)

wouldCreateCycle(v, g, fromId, toId) ==
    IF v = "dag_js" THEN canReach(g, toId, fromId)
    ELSE canReachForward(g, toId, fromId)

\* this.edges.get(toId).add(fromId)
InsertEdge(g, fromId, toId) ==
    [g EXCEPT !.edges = MapSet(g.edges, toId, SetAdd(MapGet(g.edges, toId), fromId))]

\* addEdge with the cycle check made after the insertion and no roll-back.
addEdge_lateCheck(v, g, fromId, toId) ==
    IF fromId = toId THEN [g |-> g, ret |-> FALSE, at |-> "selfloop"]
    ELSE LET g1 == IF ~SetHas(g.nodes, fromId) THEN addNode(g, fromId) ELSE g
             g2 == IF ~SetHas(g1.nodes, toId) THEN addNode(g1, toId) ELSE g1
         IN IF v = "part_000" /\ MapHas(g2.edges, toId)
                 /\ SetHas(MapGet(g2.edges, toId), fromId)
            THEN [g |-> g2, ret |-> FALSE, at |-> "duplicate"]
            ELSE IF wouldCreateCycle(v, g2, fromId, toId)
                 THEN [g |-> InsertEdge(g2, fromId, toId), ret |-> FALSE, at |-> "cycle"]
                 ELSE [g |-> InsertEdge(g2, fromId, toId), ret |-> TRUE, at |-> "added"]

\* addEdge without the fromId === toId test.
addEdge_noSelfCheck(v, g, fromId, toId) ==
    LET g1 == IF ~SetHas(g.nodes, fromId) THEN addNode(g, fromId) ELSE g
        g2 == IF ~SetHas(g1.nodes, toId) THEN addNode(g1, toId) ELSE g1
    IN IF v = "part_000" /\ MapHas(g2.edges, toId)
            /\ SetHas(MapGet(g2.edges, toId), fromId)
       THEN [g |-> g2, ret |-> FALSE, at |-> "duplicate"]
       ELSE IF wouldCreateCycle(v, g2, fromId, toId)
            THEN [g |-> g2, ret |-> FALSE, at |-> "cycle"]
            ELSE [g |-> InsertEdge(g2, fromId, toId), ret |-> TRUE, at |-> "added"]

\* addEdge without the duplicate test of part_000.
addEdge_noDupCheck(v, g, fromId, toId) ==
    IF fromId = toId THEN [g |-> g, ret |-> FALSE, at |-> "selfloop"]
    ELSE LET g1 == IF ~SetHas(g.nodes, fromId) THEN addNode(g, fromId) ELSE g
             g2 == IF ~SetHas(g1.nodes, toId) THEN addNode(g1, toId) ELSE g1
         IN IF wouldCreateCycle(v, g2, fromId, toId)
            THEN [g |-> g2, ret |-> FALSE, at |-> "cycle"]
            ELSE [g |-> InsertEdge(g2, fromId, toId), ret |-> TRUE, at |-> "added"]

\* addEdge whose duplicate branch returns true.
addEdge_dupReturnsTrue(v, g, fromId, toId) ==
    IF fromId = toId THEN [g |-> g, ret |-> FALSE, at |-> "selfloop"]
    ELSE LET g1 == IF ~SetHas(g.nodes, fromId) THEN addNode(g, fromId) ELSE g
             g2 == IF ~SetHas(g1.nodes, toId) THEN addNode(g1, toId) ELSE g1
         IN IF v = "part_000" /\ MapHas(g2.edges, toId)
                 /\ SetHas(MapGet(g2.edges, toId), fromId)
            THEN [g |-> g2, ret |-> TRUE, at |-> "duplicate"]
            ELSE IF wouldCreateCycle(v, g2, fromId, toId)
                 THEN [g |-> g2, ret |-> FALSE, at |-> "cycle"]
                 ELSE [g |-> InsertEdge(g2, fromId, toId), ret |-> TRUE, at |-> "added"]

\* addEdge returns a boolean (ret); at names the return statement that was
\* taken: "selfloop", "duplicate", "cycle" or "added".
addEdge(v, g, fromId, toId) ==
    IF fromId = toId THEN [g |-> g, ret |-> FALSE, at |-> "selfloop"]
    ELSE LET g1 == IF ~SetHas(g.nodes, fromId) THEN addNode(g, fromId) ELSE g
             g2 == IF ~SetHas(g1.nodes, toId) THEN addNode(g1, toId) ELSE g1
         IN IF v = "part_000" /\ MapHas(g2.edges, toId)
                 /\ SetHas(MapGet(g2.edges, toId), fromId)
            THEN [g |-> g2, ret |-> FALSE, at |-> "duplicate"]
            ELSE IF wouldCreateCycle(v, g2, fromId, toId)
                 THEN [g |-> g2, ret |-> FALSE, at |-> "cycle"]
                 ELSE [g |-> InsertEdge(g2, fromId, toId), ret |-> TRUE, at |-> "added"]

\* Number of stored edges.
EdgeCount(g) ==
    LET RECURSIVE sum(_)
        sum(i) == IF i > Len(g.edges) THEN 0 ELSE Len(g.edges[i].val) + sum(i + 1)
    IN sum(1)

\* A getAllEdges that pushes [toId, fromId].
getAllEdges_swapped(g) ==
    LET RECURSIVE flat(_)
        flat(i) == IF i > Len(g.edges) THEN <<>>
                   ELSE [j \in 1..Len(g.edges[i].val) |->
                            <<g.edges[i].key, g.edges[i].val[j]>>] \o flat(i + 1)
    IN flat(1)

getAllEdges(g) ==
    LET RECURSIVE flat(_)
        flat(i) == IF i > Len(g.edges) THEN <<>>
                   ELSE [j \in 1..Len(g.edges[i].val) |->
                            <<g.edges[i].val[j], g.edges[i].key>>] \o flat(i + 1)
    IN flat(1)


----------------------------------------------------------------------------
\* topologicalSort (Kahn's algorithm)

\* inDegree after the two initialisation loops: every node of this.nodes at 0,
\* then one increment per stored blocker of every key of this.edges.
InitialInDegree(g) ==
    LET zero == [i \in 1..Len(g.nodes) |-> [key |-> g.nodes[i], val |-> 0]]
        RECURSIVE count(_, _)
        count(i, deg) ==
            IF i > Len(g.edges) THEN deg
            ELSE LET toId == g.edges[i].key
                     n    == Len(g.edges[i].val)
                 IN IF n = 0 THEN count(i + 1, deg)
                    ELSE count(i + 1,
                               MapSet(deg, toId,
                                      (IF MapHas(deg, toId) THEN MapGet(deg, toId) ELSE 0) + n))
    IN count(1, zero)

\* for (const dependent of dependents) { decrement; push when it reaches 0 }
RECURSIVE Relax(_, _, _, _)
Relax(dependents, i, deg, queue) ==
    IF i > Len(dependents) THEN [deg |-> deg, queue |-> queue]
    ELSE LET newDegree == MapGet(deg, dependents[i]) - 1
             deg2      == MapSet(deg, dependents[i], newDegree)
         IN Relax(dependents, i + 1, deg2,
                  IF newDegree = 0 THEN Append(queue, dependents[i]) ELSE queue)

\* while (queue.length > 0) { node = queue.shift(); result.push(node); ... }
RECURSIVE KahnLoop(_, _, _, _)
KahnLoop(g, queue, result, deg) ==
    IF Len(queue) = 0 THEN result
    ELSE LET node == Head(queue)
             r    == Relax(getDependents(g, node), 1, deg, Tail(queue))
         IN KahnLoop(g, r.queue, Append(result, node), r.deg)

\* A Kahn's loop that takes the most recently enqueued node (queue.pop()).
RECURSIVE KahnLoop_lifo(_, _, _, _)
KahnLoop_lifo(g, queue, result, deg) ==
    IF Len(queue) = 0 THEN result
    ELSE LET node == queue[Len(queue)]
             r    == Relax(getDependents(g, node), 1, deg, SubSeq(queue, 1, Len(queue) - 1))
         IN KahnLoop_lifo(g, r.queue, Append(result, node), r.deg)

Kahn_lifo(g) ==
    LET deg   == InitialInDegree(g)
        queue == MapKeys(SelectSeq(deg, LAMBDA e : e.val = 0))
    IN KahnLoop_lifo(g, queue, <<>>, deg)

Kahn(g) ==
    LET deg   == InitialInDegree(g)
        queue == MapKeys(SelectSeq(deg, LAMBDA e : e.val = 0))
    IN KahnLoop(g, queue, <<>>, deg)

\* A topologicalSort without the fallback: it returns what Kahn's loop produced.
topologicalSort_partial(g) ==
    LET result == Kahn(g)
    IN [order |-> result, warn |-> Len(result) # Len(g.nodes)]

\* order is the returned array; warn says whether console.warn was called.
topologicalSort(g) ==
    LET result == Kahn(g)
    IN IF Len(result) # Len(g.nodes)
       THEN [order |-> g.nodes, warn |-> TRUE]
       ELSE [order |-> result, warn |-> FALSE]

----------------------------------------------------------------------------
\* canMoveTo

\* Array.prototype.indexOf: zero-based index of the first occurrence, or -1.
indexOf(s, x) ==
    IF \E i \in 1..Len(s) : s[i] = x
    THEN (CHOOSE i \in 1..Len(s) : s[i] = x /\ \A j \in 1..(i - 1) : s[j] # x) - 1
    ELSE -1

\* A canMoveTo without the two 'if (depIndex === -1) continue' lines.
canMoveTo_noSkip(g, nodeId, newIndex, currentOrder) ==
    LET deps       == getDependencies(g, nodeId)
        dependents == getDependents(g, nodeId)
    IN /\ \A i \in 1..Len(deps) : ~(indexOf(currentOrder, deps[i]) >= newIndex)
       /\ \A i \in 1..Len(dependents) : ~(indexOf(currentOrder, dependents[i]) < newIndex)

canMoveTo(g, nodeId, newIndex, currentOrder) ==
    LET deps       == getDependencies(g, nodeId)
        dependents == getDependents(g, nodeId)
        RECURSIVE depsLoop(_)
        depsLoop(i) ==
            IF i > Len(deps) THEN TRUE
            ELSE LET depIndex == indexOf(currentOrder, deps[i])
                 IN IF depIndex = -1 THEN depsLoop(i + 1)
                    ELSE IF depIndex >= newIndex THEN FALSE
                    ELSE depsLoop(i + 1)
        RECURSIVE dependentsLoop(_)
        dependentsLoop(i) ==
            IF i > Len(dependents) THEN TRUE
            ELSE LET depIndex == indexOf(currentOrder, dependents[i])
                 IN IF depIndex = -1 THEN dependentsLoop(i + 1)
                    ELSE IF depIndex < newIndex THEN FALSE
                    ELSE dependentsLoop(i + 1)
    IN IF ~depsLoop(1) THEN FALSE ELSE dependentsLoop(1)

----------------------------------------------------------------------------
\* store: dagActions.addDependency. success is what addEdge returned to it, at the
\* return statement addEdge took, msg the console.warn text ("" if none); the
\* action itself returns nothing to its caller.
addDependency(v, g, fromId, toId) ==
    LET r == addEdge(v, g, fromId, toId)
    IN [g       |-> r.g,
        success |-> r.ret,
        at      |-> r.at,
        msg |-> IF r.ret THEN ""
                ELSE IF MapHas(r.g.edges, toId) /\ SetHas(MapGet(r.g.edges, toId), fromId)
                     THEN "duplicate edge"
                     ELSE IF wouldCreateCycle(v, r.g, fromId, toId)
                          THEN "would create cycle"
                          ELSE "unknown reason"]

----------------------------------------------------------------------------
\* store: serializeDAG and deserializeDAG. The serialized form is
\* [nodes |-> array of ids, edges |-> array of <<fromId, toId>> pairs].

serializeDAG(dagInstance) ==
    LET RECURSIVE entries(_)
        entries(i) ==
            IF i > Len(dagInstance.edges) THEN <<>>
            ELSE LET toId == dagInstance.edges[i].key
                     deps == dagInstance.edges[i].val
                 IN [j \in 1..Len(deps) |-> <<deps[j], toId>>] \o entries(i + 1)
    IN [nodes |-> dagInstance.nodes, edges |-> entries(1)]

\* data.nodes.forEach(addNode), then data.edges.forEach(addEdge); what addEdge
\* returns is dropped.
deserializeDAG(v, data) ==
    LET RECURSIVE addNodes(_, _)
        addNodes(g, i) ==
            IF i > Len(data.nodes) THEN g
            ELSE addNodes(addNode(g, data.nodes[i]), i + 1)
        RECURSIVE addEdges(_, _)
        addEdges(g, i) ==
            IF i > Len(data.edges) THEN g
            ELSE addEdges(addEdge(v, g, data.edges[i][1], data.edges[i][2]).g, i + 1)
    IN addEdges(addNodes(EmptyDAG, 1), 1)

----------------------------------------------------------------------------
\* ListView: the displayed order and the two handlers that rewrite the store's
\* todos. A todo is modelled by its id: todoList is the array of the todos' ids.

\* arr.splice(i, 1) and arr.splice(i, 0, x), i zero-based
spliceOut(arr, i) == SubSeq(arr, 1, i) \o SubSeq(arr, i + 2, Len(arr))

spliceIn(arr, i, x) ==
    LET k == IF i > Len(arr) THEN Len(arr) ELSE i
    IN SubSeq(arr, 1, k) \o <<x>> \o SubSeq(arr, k + 1, Len(arr))

\* A sortedTodos that sorts topologically whenever there is an edge.
sortedTodos_alwaysSort(g, todoList) ==
    IF Len(getAllEdges(g)) = 0 THEN todoList
    ELSE SelectSeq(topologicalSort(g).order, LAMBDA id : SetHas(todoList, id))
         \o SelectSeq(todoList, LAMBDA id : ~SetHas(g.nodes, id))

\* $: sortedTodos, recomputed whenever $todos or $dag changes
sortedTodos(g, todoList) ==
    LET allEdges     == getAllEdges(g)
        needsReorder == \E i \in 1..Len(allEdges) :
                           indexOf(todoList, allEdges[i][1]) > indexOf(todoList, allEdges[i][2])
    IN IF Len(allEdges) = 0 THEN todoList
       ELSE IF ~needsReorder THEN todoList
       ELSE LET sortedIds   == topologicalSort(g).order
                sorted      == SelectSeq(sortedIds, LAMBDA id : SetHas(todoList, id))
                unconnected == SelectSeq(todoList, LAMBDA id : ~SetHas(g.nodes, id))
            IN sorted \o unconnected

\* handleDrop and handleTouchEndDrag: todos is the store's array afterwards, at
\* the branch taken.
handleDrop(g, todoList, draggedTodoId, dropIndex) ==
    LET sortedOrder  == sortedTodos(g, todoList)
        draggedIndex == indexOf(sortedOrder, draggedTodoId)
    IN IF draggedIndex = -1 \/ draggedIndex = dropIndex
       THEN [todos |-> todoList, at |-> "same"]
       ELSE IF canMoveTo(g, draggedTodoId, dropIndex, sortedOrder)
       THEN [todos |-> spliceIn(spliceOut(sortedOrder, draggedIndex), dropIndex, draggedTodoId),
             at |-> "moved"]
       ELSE [todos |-> todoList, at |-> "refused"]

\* A handleArrowEnd that puts the source directly below the target.
handleArrowEnd_below(v, g, todoList, fromId, toId) ==
    IF fromId = toId THEN [todos |-> todoList, g |-> g, at |-> "none"]
    ELSE LET fromIndex == indexOf(todoList, fromId)
             toIndex   == indexOf(todoList, toId)
             r         == addDependency(v, g, fromId, toId)
         IN [todos |-> IF fromIndex > toIndex
                       THEN spliceIn(spliceOut(todoList, fromIndex), toIndex + 1, fromId)
                       ELSE todoList,
             g |-> r.g, at |-> r.at]

\* handleArrowEnd: the arrow drawn from the card fromId ended on the card toId.
handleArrowEnd(v, g, todoList, fromId, toId) ==
    IF fromId = toId THEN [todos |-> todoList, g |-> g, at |-> "none"]
    ELSE LET fromIndex == indexOf(todoList, fromId)
             toIndex   == indexOf(todoList, toId)
             r         == addDependency(v, g, fromId, toId)
         IN [todos |-> IF fromIndex > toIndex
                       THEN spliceIn(spliceOut(todoList, fromIndex), toIndex, fromId)
                       ELSE todoList,
             g |-> r.g, at |-> r.at]

----------------------------------------------------------------------------
\* The running program: one engine instance and its clients' calls.
\* last records the most recent call: its name and the return statement taken.
\* stored is what localStorage holds: the ids of 'todag-todos', the nodes and
\* edges arrays of 'todag-dag', and 'todag-nextid' (0 when the item is absent);
\* todos is the ids of the store's todos in their stored order, completed the
\* ids of those whose completed flag is set, nextId the id generator's counter.
\* The engine's own clients leave these alone.

G == [nodes |-> nodes, edges |-> edges]

Size(g) == Len(g.nodes) + EdgeCount(g)

Init ==
    /\ impl \in Impls
    /\ nodes = <<>>
    /\ edges = <<>>
    /\ last = [op |-> "new", at |-> ""]
    /\ stored = [todos |-> <<>>, completed |-> {}, nodes |-> <<>>, edges |-> <<>>,
                 nextId |-> 0]
    /\ todos = <<>>
    /\ nextId = 1
    /\ completed = {}

AddNode(id) ==
    LET g == addNode(G, id)
    IN /\ Size(g) <= MaxSize
       /\ nodes' = g.nodes
       /\ edges' = g.edges
       /\ last' = [op |-> "addNode",
                   at |-> IF SetHas(nodes, id) THEN "exists" ELSE "created"]
       /\ UNCHANGED <<impl, stored, todos, nextId, completed>>

RemoveNode(id) ==
    LET g == removeNode(G, id)
    IN /\ nodes' = g.nodes
       /\ edges' = g.edges
       /\ last' = [op |-> "removeNode",
                   at |-> IF SetHas(nodes, id) THEN "removed" ELSE "unknown"]
       /\ UNCHANGED <<impl, stored, todos, nextId, completed>>

AddEdge(fromId, toId) ==
    LET r == addEdge(impl, G, fromId, toId)
    IN /\ Size(r.g) <= MaxSize
       /\ nodes' = r.g.nodes
       /\ edges' = r.g.edges
       /\ last' = [op |-> "addEdge", at |-> r.at]
       /\ UNCHANGED <<impl, stored, todos, nextId, completed>>

RemoveEdge(fromId, toId) ==
    LET g == removeEdge(G, fromId, toId)
    IN /\ nodes' = g.nodes
       /\ edges' = g.edges
       /\ last' = [op |-> "removeEdge",
                   at |-> IF SetHas(getDependencies(G, toId), fromId)
                          THEN "deleted" ELSE "absent"]
       /\ UNCHANGED <<impl, stored, todos, nextId, completed>>

GetDependencies(id) ==
    /\ last' = [op |-> "getDependencies", at |-> ""]
    /\ UNCHANGED <<impl, nodes, edges, stored, todos, nextId, completed>>

GetDependents(id) ==
    /\ last' = [op |-> "getDependents", at |-> ""]
    /\ UNCHANGED <<impl, nodes, edges, stored, todos, nextId, completed>>

TopologicalSort ==
    /\ last' = [op |-> "topologicalSort",
                at |-> IF topologicalSort(G).warn THEN "warned" ELSE ""]
    /\ UNCHANGED <<impl, nodes, edges, stored, todos, nextId, completed>>

Next ==
    \/ \E id \in Ids : AddNode(id)
    \/ \E id \in Ids : RemoveNode(id)
    \/ \E a, b \in Ids : AddEdge(a, b)
    \/ \E a, b \in Ids : RemoveEdge(a, b)
    \/ \E id \in Ids : GetDependencies(id)
    \/ \E id \in Ids : GetDependents(id)
    \/ TopologicalSort

Spec == Init /\ [][Next]_vars

\* The copy in src/unnamed/part_000 alone.
SpecPart000 == Init /\ impl = "part_000" /\ [][Next]_vars

----------------------------------------------------------------------------
\* A client that builds a graph and asks canMoveTo about candidate orders of
\* its own making: any arrangement of distinct ids, complete or not, and any
\* target index.

Orders ==
    {s \in UNION {[1..n -> Ids] : n \in 0..NumIds} :
        \A i, j \in 1..Len(s) : s[i] = s[j] => i = j}

\* Some call canMoveTo(nodeId, newIndex, currentOrder) returns ret.
CanMoveTo(ret) ==
    /\ ~(\A nodeId \in Ids, newIndex \in 0..NumIds, currentOrder \in Orders :
           canMoveTo(G, nodeId, newIndex, currentOrder) # ret)
    /\ last' = [op |-> "canMoveTo", at |-> IF ret THEN "true" ELSE "false"]
    /\ UNCHANGED <<impl, nodes, edges, stored, todos, nextId, completed>>

GetAllEdges ==
    /\ last' = [op |-> "getAllEdges", at |-> ""]
    /\ UNCHANGED <<impl, nodes, edges, stored, todos, nextId, completed>>

NextMove ==
    \/ \E a, b \in Ids : AddEdge(a, b)
    \/ \E ret \in BOOLEAN : CanMoveTo(ret)
    \/ GetAllEdges
    \/ TopologicalSort

SpecMove == Init /\ [][NextMove]_vars

----------------------------------------------------------------------------
\* The application: the store's todos and DAG, changed by the store's actions
\* and by the list view's handlers. Ids are handed out by generateId; the
\* handlers are given the ids of cards on display.

TodoAdd ==
    LET g == addNode(G, nextId)
    IN /\ nextId <= NumIds
       /\ todos' = Append(todos, nextId)
       /\ nodes' = g.nodes
       /\ edges' = g.edges
       /\ nextId' = nextId + 1
       /\ last' = [op |-> "add", at |-> ""]
       /\ UNCHANGED <<impl, stored, completed>>

TodoRemove(id) ==
    LET g == removeNode(G, id)
    IN /\ SetHas(todos, id)
       /\ todos' = SelectSeq(todos, LAMBDA t : t # id)
       /\ nodes' = g.nodes
       /\ edges' = g.edges
       /\ completed' = completed \ {id}
       /\ last' = [op |-> "remove", at |-> ""]
       /\ UNCHANGED <<impl, stored, nextId>>

HandleArrowEnd(fromId, toId) ==
    LET r == handleArrowEnd(impl, G, todos, fromId, toId)
    IN /\ SetHas(todos, fromId) /\ SetHas(todos, toId)
       /\ Size(r.g) <= MaxSize
       /\ todos' = r.todos
       /\ nodes' = r.g.nodes
       /\ edges' = r.g.edges
       /\ last' = [op |-> "handleArrowEnd", at |-> r.at]
       /\ UNCHANGED <<impl, stored, nextId, completed>>

RemoveDependency(fromId, toId) ==
    LET g == removeEdge(G, fromId, toId)
    IN /\ SetHas(todos, fromId) /\ SetHas(todos, toId)
       /\ nodes' = g.nodes
       /\ edges' = g.edges
       /\ last' = [op |-> "removeDependency", at |-> ""]
       /\ UNCHANGED <<impl, stored, todos, nextId, completed>>

HandleDrop(draggedTodoId, dropIndex) ==
    LET r == handleDrop(G, todos, draggedTodoId, dropIndex)
    IN /\ SetHas(todos, draggedTodoId)
       /\ dropIndex < Len(todos)
       /\ todos' = r.todos
       /\ last' = [op |-> "handleDrop", at |-> r.at]
       /\ UNCHANGED <<impl, nodes, edges, stored, nextId, completed>>

NextApp ==
    \/ TodoAdd
    \/ \E id \in Ids : TodoRemove(id)
    \/ \E a, b \in Ids : HandleArrowEnd(a, b)
    \/ \E a, b \in Ids : RemoveDependency(a, b)
    \/ \E id \in Ids, i \in 0..(NumIds - 1) : HandleDrop(id, i)

SpecApp == Init /\ [][NextApp]_vars

SpecAppPart000 == Init /\ impl = "part_000" /\ [][NextApp]_vars

----------------------------------------------------------------------------
\* The store by itself: todoActions and dagActions, called with the ids of
\* existing todos.

\* A clearCompleted that leaves the DAG alone.
clearCompleted_keepNodes(g, todoList, done) ==
    [todos |-> SelectSeq(todoList, LAMBDA t : t \notin done), g |-> g]

\* todoActions.clearCompleted: removeNode for every completed todo in the order
\* of the list, then the list without them.
clearCompleted(g, todoList, done) ==
    LET completedIds == SelectSeq(todoList, LAMBDA t : t \in done)
        RECURSIVE removeAll(_, _)
        removeAll(d, i) ==
            IF i > Len(completedIds) THEN d
            ELSE removeAll(removeNode(d, completedIds[i]), i + 1)
    IN [todos |-> SelectSeq(todoList, LAMBDA t : t \notin done),
        g     |-> removeAll(g, 1)]

ToggleComplete(id) ==
    /\ SetHas(todos, id)
    /\ completed' = IF id \in completed THEN completed \ {id} ELSE completed \cup {id}
    /\ last' = [op |-> "toggleComplete", at |-> ""]
    /\ UNCHANGED <<impl, nodes, edges, stored, todos, nextId>>

ClearCompleted ==
    LET r == clearCompleted(G, todos, completed)
    IN /\ todos' = r.todos
       /\ nodes' = r.g.nodes
       /\ edges' = r.g.edges
       /\ completed' = {}
       /\ last' = [op |-> "clearCompleted",
                   at |-> IF completed = {} THEN "none" ELSE "some"]
       /\ UNCHANGED <<impl, stored, nextId>>

DeleteAll ==
    /\ todos' = <<>>
    /\ nodes' = EmptyDAG.nodes
    /\ edges' = EmptyDAG.edges
    /\ completed' = {}
    /\ last' = [op |-> "deleteAll", at |-> ""]
    /\ UNCHANGED <<impl, stored, nextId>>

AddDependency(fromId, toId) ==
    LET r == addDependency(impl, G, fromId, toId)
    IN /\ SetHas(todos, fromId) /\ SetHas(todos, toId)
       /\ Size(r.g) <= MaxSize
       /\ nodes' = r.g.nodes
       /\ edges' = r.g.edges
       /\ last' = [op |-> "addDependency", at |-> r.at]
       /\ UNCHANGED <<impl, stored, todos, nextId, completed>>

NextStore ==
    \/ TodoAdd
    \/ \E id \in Ids : TodoRemove(id)
    \/ \E id \in Ids : ToggleComplete(id)
    \/ ClearCompleted
    \/ DeleteAll
    \/ \E a, b \in Ids : AddDependency(a, b)
    \/ \E a, b \in Ids : RemoveDependency(a, b)

SpecStore == Init /\ [][NextStore]_vars

----------------------------------------------------------------------------
\* store: the state kept in localStorage, written by saveState and read by
\* loadState when the page is loaded. Between the two the item 'todag-dag' can
\* be edited by hand: any array of ids and any array of pairs of ids.

FormLen(data) == Len(data.nodes) + Len(data.edges)

StorageEditNode(id) ==
    /\ FormLen(stored) < MaxFormLen
    /\ stored' = [stored EXCEPT !.nodes = Append(@, id)]
    /\ last' = [op |-> "edit", at |-> "nodes"]
    /\ UNCHANGED <<impl, nodes, edges, todos, nextId, completed>>

StorageEditEdge(fromId, toId) ==
    /\ FormLen(stored) < MaxFormLen
    /\ stored' = [stored EXCEPT !.edges = Append(@, <<fromId, toId>>)]
    /\ last' = [op |-> "edit", at |-> "edges"]
    /\ UNCHANGED <<impl, nodes, edges, todos, nextId, completed>>

\* The largest n of the ids todo-n among the loaded todos.
MaxTodoId(ts) ==
    IF Len(ts) = 0 THEN 0 ELSE CHOOSE m \in SetOf(ts) : \A x \in SetOf(ts) : x <= m

LoadState ==
    LET loadedDAG == deserializeDAG(impl, [nodes |-> stored.nodes, edges |-> stored.edges])
        loadedId  == IF stored.nextId # 0 THEN stored.nextId ELSE nextId
    IN /\ todos' = stored.todos
       /\ nodes' = loadedDAG.nodes
       /\ edges' = loadedDAG.edges
       /\ nextId' = IF Len(stored.todos) > 0 /\ MaxTodoId(stored.todos) >= loadedId
                    THEN MaxTodoId(stored.todos) + 1 ELSE loadedId
       /\ last' = [op |-> "loadState",
                   at |-> IF EdgeCount(loadedDAG) < Len(stored.edges)
                          THEN "dropped" ELSE "all"]
       /\ completed' = stored.completed
       /\ UNCHANGED <<impl, stored>>

SaveState ==
    LET data == serializeDAG(G)
    IN /\ stored' = [todos |-> todos, completed |-> completed, nodes |-> data.nodes,
                     edges |-> data.edges, nextId |-> nextId]
       /\ last' = [op |-> "saveState", at |-> ""]
       /\ UNCHANGED <<impl, nodes, edges, todos, nextId, completed>>

NextStorage ==
    \/ \E id \in Ids : StorageEditNode(id)
    \/ \E a, b \in Ids : StorageEditEdge(a, b)
    \/ LoadState
    \/ SaveState

SpecStorage == Init /\ [][NextStorage]_vars

SpecStoragePart000 == Init /\ impl = "part_000" /\ [][NextStorage]_vars

----------------------------------------------------------------------------
\* Notions used to state the properties, defined over the stored constraints

\* The stored constraints as a set of (blocker, blocked) pairs.
EdgeSet(g) ==
    UNION {{<<b, g.edges[i].key>> : b \in SetOf(g.edges[i].val)} : i \in 1..Len(g.edges)}

RECURSIVE Grow(_, _, _)
Grow(E, S, n) ==
    IF n = 0 THEN S
    ELSE Grow(E, S \cup {e[2] : e \in {x \in E : x[1] \in S}}, n - 1)

\* The nodes reached from a along one or more blocker -> blocked edges.
ReachFrom(g, a) ==
    LET E == EdgeSet(g)
    IN Grow(E, {e[2] : e \in {x \in E : x[1] = a}}, NumIds)

HasCycle(g) ==
    LET E == EdgeSet(g)
    IN \E n \in Ids : n \in Grow(E, {e[2] : e \in {x \in E : x[1] = n}}, NumIds)

\* Position of the first occurrence of x in s.
Index(s, x) == CHOOSE i \in 1..Len(s) : s[i] = x /\ \A j \in 1..(i - 1) : s[j] # x

\* s lists every member of the Set t exactly once.
ListsExactly(s, t) == Len(s) = Len(t) /\ SetOf(s) = SetOf(t)

\* s keeps the members of t other than x, in t's order.
SameOrderWithout(s, t, x) ==
    /\ SetOf(s) = SetOf(t) \ {x}
    /\ Len(s) = Cardinality(SetOf(s))
    /\ \A u, w \in SetOf(s) : (Index(s, u) < Index(s, w)) <=> (Index(t, u) < Index(t, w))

----------------------------------------------------------------------------
\* C1: after any sequence of addNode, addEdge, removeNode and removeEdge calls
\* from the empty graph the stored edges contain no cycle: no node is reached
\* from itself along a non-empty path of blocker -> blocked edges.
C1_Acyclic == ~HasCycle(G)

\* C2: in every reachable state topologicalSort() returns every node of S
\* exactly once, and every stored edge (b, k) has b at an earlier position than k.
C2_TopologicalSortValid ==
    LET r == topologicalSort(G).order
    IN /\ ListsExactly(r, nodes)
       /\ \A e \in EdgeSet(G) :
            /\ SetHas(r, e[1])
            /\ SetHas(r, e[2])
            /\ Index(r, e[1]) < Index(r, e[2])

\* C3: for blocker # blocked and an edge that is not stored, addEdge(blocker,
\* blocked) is rejected as a cycle exactly when blocker is reachable from blocked
\* along the current edges in the blocker -> blocked direction.
C3_CycleRejectedIffReachable ==
    \A a, b \in Ids :
        (a # b /\ <<a, b>> \notin EdgeSet(G)) =>
            LET r == addEdge(impl, G, a, b)
            IN (~r.ret /\ r.at = "cycle") <=> (a \in ReachFrom(G, b))

\* C4: whenever addEdge returns failure, the node set (with its insertion order)
\* and every blocker set are as before the call; no endpoint is auto-created.
C4_RejectedAddEdgeNoChange ==
    \A a, b \in Ids :
        LET r == addEdge(impl, G, a, b)
        IN ~r.ret => (r.g.nodes = nodes /\ r.g.edges = edges)

C4_Witness ==
    /\ last.op = "addEdge"
    /\ last.at = "cycle"
    /\ Len(nodes) < NumIds
    /\ \E a, b \in Ids : ~SetHas(nodes, a) /\ ~addEdge(impl, G, a, b).ret

\* C5: addEdge(blocker, blocked) succeeds for every pair that is not a self-loop,
\* not a duplicate and does not close a cycle; it adds the missing endpoints to S,
\* inserts blocker into blocked's blocker set, and changes nothing else.
C5_AddEdgeEffect ==
    \A a, b \in Ids :
        (a # b /\ <<a, b>> \notin EdgeSet(G) /\ a \notin ReachFrom(G, b)) =>
            LET r == addEdge(impl, G, a, b)
            IN /\ r.ret
               /\ SetOf(r.g.nodes) = SetOf(nodes) \cup {a, b}
               /\ SubSeq(r.g.nodes, 1, Len(nodes)) = nodes
               /\ Len(r.g.nodes) = Cardinality(SetOf(r.g.nodes))
               /\ MapKeys(r.g.edges) = r.g.nodes
               /\ EdgeSet(r.g) = EdgeSet(G) \cup {<<a, b>>}
               /\ \A k \in Ids \ {b} : getDependencies(r.g, k) = getDependencies(G, k)
               /\ getDependencies(r.g, b) = Append(getDependencies(G, b), a)

\* C6: addEdge(x, x) fails and changes nothing, for known and unknown x alike,
\* and in every reachable state no node is in its own blocker set.
C6_SelfLoopRejected ==
    /\ \A x \in Ids :
         LET r == addEdge(impl, G, x, x)
         IN ~r.ret /\ r.g.nodes = nodes /\ r.g.edges = edges
    /\ \A n \in Ids : ~SetHas(getDependencies(G, n), n)

C6_Witness ==
    /\ last.op = "addEdge"
    /\ last.at = "selfloop"
    /\ Len(nodes) \in 1..(NumIds - 1)
    /\ EdgeSet(G) # {}

\* C7: addEdge for a pair that is already stored returns failure and stores
\* nothing, so every (blocker, blocked) pair is stored at most once and occurs
\* at most once in getAllEdges().
C7_NoDuplicateEdge ==
    LET E   == EdgeSet(G)
        all == getAllEdges(G)
    IN /\ \A e \in E :
            LET r == addEdge(impl, G, e[1], e[2])
            IN ~r.ret /\ r.g.nodes = nodes /\ r.g.edges = edges
       /\ \A i, j \in 1..Len(all) : i # j => all[i] # all[j]
       /\ SetOf(all) = E

C7_Witness ==
    /\ last.op = "addEdge"
    /\ last.at = "duplicate"
    /\ Size(G) = MaxSize

\* C8 as claimed: what a failed addEdge reports (its return value, and the text
\* dagActions.addDependency logs for it) identifies which of the three reasons
\* applied, so two calls that fail for different reasons report differently.
C8_ReasonIdentified ==
    \A a, b, c, d \in Ids :
        LET r1 == addDependency(impl, G, a, b)
            r2 == addDependency(impl, G, c, d)
        IN (~r1.success /\ ~r2.success /\ r1.at # r2.at) =>
              <<r1.success, r1.msg>> # <<r2.success, r2.msg>>

\* C8 as amended: addEdge returns true exactly when it inserted the edge and the
\* one value false for all three rejections; the text addDependency logs names
\* a duplicate for a stored pair, and a cycle for a self-loop as well as a cycle.
C8_FailureIsFalse ==
    LET E == EdgeSet(G)
    IN \A a, b \in Ids :
        LET r == addDependency(impl, G, a, b)
        IN /\ r.success <=> (r.at = "added")
           /\ r.success <=> (r.g.edges # edges)
           /\ r.success => r.msg = ""
           /\ ~r.success => r.msg = (IF <<a, b>> \in E THEN "duplicate edge"
                                                        ELSE "would create cycle")

C8_Witness ==
    /\ last.op = "addEdge"
    /\ last.at = "selfloop"
    /\ \E a, b \in Ids : addEdge(impl, G, a, b).at = "cycle"
    /\ \E a, b \in Ids : addEdge(impl, G, a, b).at = "duplicate"

C10_RemoveNodeEffect ==
    LET E == EdgeSet(G)
    IN \A id \in Ids :
        LET g2 == removeNode(G, id)
        IN IF SetHas(nodes, id)
           THEN /\ ~SetHas(g2.nodes, id)
                /\ ~MapHas(g2.edges, id)
                /\ \A i \in 1..Len(g2.edges) : ~SetHas(g2.edges[i].val, id)
                /\ SameOrderWithout(g2.nodes, nodes, id)
                /\ MapKeys(g2.edges) = g2.nodes
                /\ EdgeSet(g2) = {e \in E : e[1] # id /\ e[2] # id}
           ELSE g2.nodes = nodes /\ g2.edges = edges

C10_Witness ==
    /\ last.op = "removeNode"
    /\ last.at = "removed"
    /\ Len(nodes) = NumIds - 1
    /\ EdgeSet(G) # {}

----------------------------------------------------------------------------
\* C11: in every reachable state both endpoints of every stored edge are in S:
\* no blocker set holds an id outside S, and no blocker set is kept for an id
\* outside S.
C11_EndpointsInS ==
    /\ \A e \in EdgeSet(G) : SetHas(nodes, e[1]) /\ SetHas(nodes, e[2])
    /\ \A i \in 1..Len(edges) : \A b \in SetOf(edges[i].val) : SetHas(nodes, b)

\* A node with stored edges on both sides was just removed, and edges remain.
C11_Witness ==
    /\ last.op = "removeNode" /\ last.at = "removed"
    /\ Len(nodes) = NumIds - 1
    /\ EdgeSet(G) # {}
    /\ \E x \in Ids : ~SetHas(nodes, x)

\* C12: removeEdge(a, b) removes exactly the edge (a, b) when it is stored and
\* changes nothing otherwise (unknown ids included); S and every blocker set
\* other than b's are never changed.
C12_RemoveEdgeFrame ==
    LET E == EdgeSet(G)
    IN \A a, b \in Ids :
         LET g == removeEdge(G, a, b)
         IN /\ g.nodes = nodes
            /\ MapKeys(g.edges) = MapKeys(edges)
            /\ \A k \in Ids \ {b} : getDependencies(g, k) = getDependencies(G, k)
            /\ EdgeSet(g) = E \ {<<a, b>>}
            /\ SameOrderWithout(getDependencies(g, b), getDependencies(G, b), a)
            /\ (<<a, b>> \notin E => g.edges = edges)

\* An edge was just deleted from a blocker set that still holds another edge.
C12_Witness ==
    /\ last.op = "removeEdge" /\ last.at = "deleted"
    /\ \E i \in 1..Len(edges) : Len(edges[i].val) > 0

\* C13: addNode(x) with x in S changes neither S (order included) nor any
\* blocker set, so it does not reset x's blockers; with x not in S it appends
\* x to S with an empty blocker set and changes no other blocker set.
C13_AddNodeIdempotent ==
    \A x \in Ids :
      LET g == addNode(G, x)
      IN IF SetHas(nodes, x)
         THEN g.nodes = nodes /\ g.edges = edges
         ELSE /\ g.nodes = Append(nodes, x)
              /\ MapHas(g.edges, x) /\ getDependencies(g, x) = <<>>
              /\ \A k \in Ids \ {x} :
                   /\ MapHas(g.edges, k) <=> MapHas(edges, k)
                   /\ getDependencies(g, k) = getDependencies(G, k)

\* addNode was just called for an existing node while blockers are stored on
\* every node but one.
C13_Witness ==
    /\ last.op = "addNode" /\ last.at = "exists"
    /\ Cardinality({e[2] : e \in EdgeSet(G)}) = NumIds - 1
----------------------------------------------------------------------------
\* Kahn's algorithm stated over the edge set: the head of the ready queue is
\* output and its outgoing edges are erased; the nodes that thereby lose their
\* last incoming edge join the back of the queue in the order of S.
RECURSIVE RefKahnLoop(_, _, _, _)
RefKahnLoop(S, E, queue, result) ==
    IF Len(queue) = 0 THEN result
    ELSE LET n     == Head(queue)
             E2    == {e \in E : e[1] # n}
             ready == SelectSeq(S, LAMBDA x : /\ <<n, x>> \in E
                                             /\ \A e \in E2 : e[2] # x)
         IN RefKahnLoop(S, E2, Tail(queue) \o ready, Append(result, n))

RefKahn(g) ==
    LET E == EdgeSet(g)
    IN RefKahnLoop(g.nodes, E,
                   SelectSeq(g.nodes, LAMBDA x : \A e \in E : e[2] # x), <<>>)

C20_ConverseRelations ==
    /\ \A b, k \in Ids :
         SetHas(getDependents(G, b), k) <=> SetHas(getDependencies(G, k), b)
    /\ \A x \in Ids :
         ~SetHas(nodes, x) => getDependencies(G, x) = <<>> /\ getDependents(G, x) = <<>>

\* getDependents was just called while an edge is stored and some id is not
\* in S.
C20_Witness ==
    /\ last.op = "getDependents"
    /\ EdgeSet(G) # {}
    /\ \E x \in Ids : ~SetHas(nodes, x)
----------------------------------------------------------------------------
\* C14: canMoveTo(id, targetIndex, candidateOrder) is true exactly when every
\* direct blocker of id that occurs in candidateOrder sits at an index below
\* targetIndex and every direct dependent of id that occurs in it sits at an
\* index of targetIndex or more; blockers and dependents that do not occur in
\* candidateOrder do not count.
C14_CanMoveToLocalCheck ==
    LET E == EdgeSet(G)
    IN \A id \in Ids, targetIndex \in 0..NumIds, candidateOrder \in Orders :
         canMoveTo(G, id, targetIndex, candidateOrder)
         <=> \A i \in 1..Len(candidateOrder) :
               /\ <<candidateOrder[i], id>> \in E => i - 1 < targetIndex
               /\ <<id, candidateOrder[i]>> \in E => i - 1 >= targetIndex

\* canMoveTo just answered false on a chain a -> b -> c, as it does for
\* canMoveTo(c, 0, [c, a, b]).
C14_Witness ==
    /\ last.op = "canMoveTo" /\ last.at = "false"
    /\ \E a, b, c \in Ids :
         /\ EdgeSet(G) = {<<a, b>>, <<b, c>>}
         /\ ~canMoveTo(G, c, 0, <<c, a, b>>)
         /\ canMoveTo(G, c, 2, <<a, b>>)

\* The order lists both ends of every stored edge, the blocker first.
ValidOrder(order, g) ==
    \A e \in EdgeSet(g) :
      /\ SetHas(order, e[1]) /\ SetHas(order, e[2])
      /\ Index(order, e[1]) < Index(order, e[2])

\* C15: when the displayed order has every blocker before the item it blocks,
\* a drop that the list view accepts (canMoveTo true, the item removed and put
\* back at the drop index) leaves a stored todo order that still has every
\* blocker before the item it blocks.
C15_AcceptedDropKeepsOrderValid ==
    LET shown == sortedTodos(G, todos)
    IN ValidOrder(shown, G) =>
         \A id \in SetOf(todos), dropIndex \in 0..(Len(todos) - 1) :
           LET r == handleDrop(G, todos, id, dropIndex)
           IN r.at = "moved" => ValidOrder(r.todos, G)

\* C16: after any sequence of store actions, drops and arrow drawings the
\* displayed order sortedTodos has, for every edge of the DAG, the blocker
\* before the item it blocks.
C16_DisplayedOrderValid == ValidOrder(sortedTodos(G, todos), G)

\* C17: for every reachable graph G, deserializeDAG(serializeDAG(G)) has the
\* nodes of G in the same insertion order and exactly the edges of G: no edge
\* is rejected during the replay.
C17_RoundTrip ==
    LET g == deserializeDAG(impl, serializeDAG(G))
    IN g.nodes = nodes /\ EdgeSet(g) = EdgeSet(G)

\* C18: whatever form is found in storage, the graph deserializeDAG builds
\* from it has no cycle, no self-loop and no edge stored twice, and holds no
\* edge that is not in the form.
C18_DeserializeValid ==
    LET data == [nodes |-> stored.nodes, edges |-> stored.edges]
        g    == deserializeDAG(impl, data)
        E    == EdgeSet(g)
    IN /\ ~HasCycle(g)
       /\ \A e \in E : e[1] # e[2]
       /\ \A i \in 1..Len(g.edges) :
            Len(g.edges[i].val) = Cardinality(SetOf(g.edges[i].val))
       /\ E \subseteq SetOf(data.edges)
----------------------------------------------------------------------------
\* C21: getAllEdges() returns exactly the stored constraints: the pair
\* (blocker, blocked) occurs in the returned sequence exactly when blocker is
\* in blocked's blocker set, and the sequence is as long as the blocker sets
\* are large, taken together.
C21_GetAllEdgesExact ==
    LET all == getAllEdges(G)
    IN /\ \A b, k \in Ids :
            (\E i \in 1..Len(all) : all[i] = <<b, k>>)
            <=> SetHas(getDependencies(G, k), b)
       /\ Len(all) = EdgeCount(G)
       /\ Len(all) = Cardinality(EdgeSet(G))

\* getAllEdges was just called on a graph with two blocker sets in use.
C21_Witness ==
    /\ last.op = "getAllEdges"
    /\ Cardinality({e[2] : e \in EdgeSet(G)}) >= 2

\* C22: the searches of addEdge, topologicalSort and canMoveTo run to
\* completion on every reachable graph, cyclic ones included: a search loop
\* returns within one iteration per stored edge plus one, Kahn's loop within
\* one iteration per node, and canMoveTo yields its answer.
C22_OperationsTerminate ==
    /\ \A a, b \in Ids :
         /\ canReachSteps(G, a, b) <= 1 + EdgeCount(G)
         /\ canReachForwardSteps(G, a, b) <= 1 + EdgeCount(G)
    /\ Len(Kahn(G)) <= Len(nodes)
    /\ \A id \in Ids, i \in 0..Len(nodes) : canMoveTo(G, id, i, nodes) \in BOOLEAN

\* addEdge's search just ran over stored edges that contain a cycle.
C22_Witness ==
    /\ last.op = "addEdge" /\ last.at = "added"
    /\ HasCycle(G)
    /\ \E a, b \in Ids : canReachSteps(G, a, b) > 1
----------------------------------------------------------------------------
\* C28: in every reachable state the keys of the edges map are the members of
\* the nodes set in the same insertion order, so a node that is removed and
\* added again is the last of both.
C28_NodesAndMapInStep ==
    /\ MapKeys(edges) = nodes
    /\ Len(nodes) = Cardinality(SetOf(nodes))

\* A node was just created behind later-numbered nodes that carry an edge.
C28_Witness ==
    /\ last.op = "addNode" /\ last.at = "created"
    /\ Len(nodes) = NumIds
    /\ nodes[Len(nodes)] = 1
    /\ EdgeSet(G) # {}

\* C30: removeNode(b) creates no edge: where a -> b and b -> c are stored and
\* a -> c is not, a -> c is not stored afterwards either; and when the chain
\* a -> b -> c is all that is stored, a and c are unordered afterwards and
\* addEdge(c, a) succeeds.
C30_RemoveNodeCreatesNoEdge ==
    LET E == EdgeSet(G)
    IN \A a, b, c \in Ids :
         (a # c /\ <<a, b>> \in E /\ <<b, c>> \in E) =>
           LET g == removeNode(G, b)
               r == addEdge(impl, g, c, a)
           IN /\ (<<a, c>> \notin E => <<a, c>> \notin EdgeSet(g))
              /\ (E = {<<a, b>>, <<b, c>>} =>
                    /\ EdgeSet(g) = {}
                    /\ r.ret /\ EdgeSet(r.g) = {<<c, a>>})

\* The chain a -> b -> c is all that is stored, an addEdge call just made it.
C30_Witness ==
    /\ last.op = "addEdge" /\ last.at = "added"
    /\ \E a, b, c \in Ids :
         /\ a # c
         /\ EdgeSet(G) = {<<a, b>>, <<b, c>>}
         /\ addEdge(impl, removeNode(G, b), c, a).ret
----------------------------------------------------------------------------
\* C27: after any sequence of todoActions.add, remove, clearCompleted and
\* deleteAll and dagActions.addDependency and removeDependency with the ids of
\* existing todos, the todo ids are the DAG's nodes, every end of every edge
\* is an existing todo, and sortedTodos lists every todo exactly once.
C27_StoreConsistent ==
    /\ SetOf(todos) = SetOf(nodes)
    /\ Len(todos) = Cardinality(SetOf(todos))
    /\ \A e \in EdgeSet(G) : SetHas(todos, e[1]) /\ SetHas(todos, e[2])
    /\ ListsExactly(sortedTodos(G, todos), todos)
    /\ LET r == clearCompleted(G, todos, completed)
       IN SetOf(r.todos) = SetOf(r.g.nodes)

\* clearCompleted just removed completed todos; every id has been handed out
\* and two todos remain.
C27_Witness ==
    /\ last.op = "clearCompleted" /\ last.at = "some"
    /\ Len(todos) >= 2
    /\ nextId > NumIds
----------------------------------------------------------------------------
\* The stored todo order todos, as distinct from the displayed one, has every
\* blocker before the item it blocks.
StoredOrderValid == ValidOrder(todos, G)

C25_ArrowMovesSourceAboveTarget ==
    \A fromId, toId \in SetOf(todos) :
      fromId # toId =>
        LET r == handleArrowEnd(impl, G, todos, fromId, toId)
            d == addDependency(impl, G, fromId, toId)
        IN /\ r.g = d.g /\ r.at = d.at
           /\ IF Index(todos, fromId) > Index(todos, toId)
              THEN /\ ListsExactly(r.todos, todos)
                   /\ Index(r.todos, fromId) + 1 = Index(r.todos, toId)
                   /\ SelectSeq(r.todos, LAMBDA t : t # fromId)
                        = SelectSeq(todos, LAMBDA t : t # fromId)
              ELSE r.todos = todos

\* An arrow was just drawn from a card below its target with a card between
\* them, and the dependency was added.
C25_Witness ==
    /\ last.op = "handleArrowEnd" /\ last.at = "added"
    /\ \E i \in 1..(Len(todos) - 1) :
         /\ <<todos[i], todos[i + 1]>> \in EdgeSet(G)
         /\ todos[i] > todos[i + 1] + 1

\* C26: a dependency request that addDependency rejects as a cycle or as a
\* duplicate leaves the todo order, the node set and the edge set as they
\* were before the arrow was drawn.
C26_RejectedArrowNoEffect ==
    \A fromId, toId \in SetOf(todos) :
      LET r == handleArrowEnd(impl, G, todos, fromId, toId)
      IN r.at \in {"cycle", "duplicate"} =>
           /\ r.todos = todos
           /\ r.g.nodes = nodes
           /\ EdgeSet(r.g) = EdgeSet(G)
----------------------------------------------------------------------------
\* calculateLayout (graph view): the layer of every node.  The pixel positions
\* computed from the layers afterwards are arithmetic on these layers.

\* for (const dependent of dependents) { ... }: layers.get(dependent) || -1
\* is -1 when the node has no layer yet and when its layer is 0.
RECURSIVE layerRelax(_, _, _, _, _)
layerRelax(dependents, i, layer, layers, queue) ==
    IF i > Len(dependents) THEN [layers |-> layers, queue |-> queue]
    ELSE LET dependent    == dependents[i]
             currentLayer == IF MapHas(layers, dependent) /\ MapGet(layers, dependent) # 0
                             THEN MapGet(layers, dependent)
                             ELSE -1
             newLayer     == layer + 1
         IN IF newLayer > currentLayer
            THEN layerRelax(dependents, i + 1, layer,
                            MapSet(layers, dependent, newLayer),
                            Append(queue, [nodeId |-> dependent, layer |-> newLayer]))
            ELSE layerRelax(dependents, i + 1, layer, layers, queue)

\* while (queue.length > 0) { queue.shift(); ... }, followed for at most
\* StepLimit iterations; done says whether the queue ran empty.
RECURSIVE layerLoop(_, _, _, _)
layerLoop(g, queue, layers, n) ==
    IF Len(queue) = 0 \/ n >= StepLimit
    THEN [layers |-> layers, steps |-> n, done |-> Len(queue) = 0]
    ELSE LET item == Head(queue)
             r    == layerRelax(getDependents(g, item.nodeId), 1, item.layer,
                                layers, Tail(queue))
         IN layerLoop(g, r.queue, r.layers, n + 1)

calculateLayout(dagInst) ==
    LET roots  == SelectSeq(dagInst.nodes,
                            LAMBDA nodeId : Len(getDependencies(dagInst, nodeId)) = 0)
        queue  == [i \in 1..Len(roots) |-> [nodeId |-> roots[i], layer |-> 0]]
        layers == [i \in 1..Len(roots) |-> [key |-> roots[i], val |-> 0]]
    IN IF Len(dagInst.nodes) = 0
       THEN [layers |-> <<>>, steps |-> 0, done |-> TRUE]
       ELSE layerLoop(dagInst, queue, layers, 0)

\* C29: for every graph reachable through the engine's operations the layer
\* assignment of calculateLayout ends, gives every node a layer, puts every
\* node without blockers on layer 0, and gives the blocked node of every edge
\* a layer strictly greater than its blocker's.
C29_LayoutLayers ==
    LET r == calculateLayout(G)
    IN /\ r.done
       /\ \A n \in SetOf(nodes) :
            /\ MapHas(r.layers, n)
            /\ (Len(getDependencies(G, n)) = 0 => MapGet(r.layers, n) = 0)
       /\ \A e \in EdgeSet(G) :
            /\ MapHas(r.layers, e[1]) /\ MapHas(r.layers, e[2])
            /\ MapGet(r.layers, e[2]) > MapGet(r.layers, e[1])
====
